---------------------------- MODULE Spec2Model ----------------------------
(***************************************************************************)
(* A model of the user-tracking utilities of landing-one                   *)
(* (src/src/utils/trackingUtils.ts): the device inspector, the scroll      *)
(* depth calculation, the snapshot builder (formatTrackingData), the       *)
(* delivery manager (sendToMultipleEndpoints), the local store             *)
(* (saveToLocalStorage / getFromLocalStorage / clearLocalStorage), the IP  *)
(* lookup (getIPAddress), the session ids (generateSessionId) and the      *)
(* throttled scroll handler of the event recorder.                         *)
(*                                                                         *)
(* The specifications share the variables:                                 *)
(*   Spec         delivery manager and local store on one event loop       *)
(*   DeviceSpec   device detection and snapshots over drawn user agents    *)
(*   ScrollSpec   scroll depth and snapshots over drawn page geometries    *)
(*   CapSpec      the local store alone, appended past its configured cap  *)
(*   StoreSpec    the local store read, cleared and written by others      *)
(*   SnapshotSpec the snapshot builder over drawn overrides                *)
(*   IpSpec       the IP lookup, with snapshots built around it            *)
(*   IdSpec       session ids generated in succession                      *)
(*   ThrottleSpec the scroll handler under raw scroll occurrences          *)
(***************************************************************************)
EXTENDS Integers, Sequences, FiniteSets, TLC

VARIABLES
    userAgent,      \* navigator.userAgent, a sequence of words
    touch,          \* 'ontouchstart' in window
    scrollTop,      \* window.pageYOffset || document.documentElement.scrollTop
    scrollHeight,   \* document.documentElement.scrollHeight
    innerHeight,    \* window.innerHeight
    deviceInfo,     \* what the last detectDeviceType call returned
    scrollDepth,    \* what the last calculateScrollDepth call returned
    snapshot,       \* what the last formatTrackingData call returned
    sendState,      \* position of the one sendToMultipleEndpoints call
    payload,        \* its data argument
    endpoints,      \* its endpoints argument
    requests,       \* the POSTs the call has issued, in order
    fetches,        \* per endpoint: the state of the promise fetch() returned
    promises,       \* per endpoint: the state of fetch(...).catch(...)
    results,        \* what the call returned
    localStorage,   \* the value stored under the key 'trackingData'
    quota,          \* the records the browser's storage has room for
    now,            \* Date.now()
    appended,       \* history: the records appended since the last clear,
                    \* kept while no other script has written the key
    saveResult,     \* what the last saveToLocalStorage call returned
    available,      \* localStorage can be used (FALSE: every access throws)
    tainted,        \* history: another script wrote the key since the last clear
    readResult,     \* what the last getFromLocalStorage call did
    connection,     \* navigator.connection, Absent where the browser has none
    lastCall,       \* history: the argument and the environment of the last
                    \* formatTrackingData call
    ipState,        \* position of the one getIPAddress call
    ipOutcome,      \* history: how its request and the reading of the body went
    ipResult,       \* what the call returned
    sessionIds,     \* history: the ids direct generateSessionId calls returned,
                    \* in order, each with the clock reading and the random
                    \* string it was made of
    lastHandled,    \* when the scroll handler last accepted an occurrence
    trackedDepth,   \* the session state's scrollDepth
    eventLog,       \* the session's event log
    raw,            \* history: the raw scroll occurrences of the current
                    \* throttle window, each with the depth it would record
    updates         \* history: the state updates made in that window

inspectVars == <<userAgent, touch, scrollTop, scrollHeight, innerHeight,
                 deviceInfo, scrollDepth, snapshot>>
sendVars    == <<sendState, payload, endpoints, requests, fetches, promises, results>>
storeVars   == <<localStorage, quota, now, appended, saveResult,
                 available, tainted, readResult>>
buildVars   == <<connection, lastCall>>
ipVars      == <<ipState, ipOutcome, ipResult>>
idVars      == <<sessionIds>>
throttleVars == <<lastHandled, trackedDepth, eventLog, raw, updates>>
moreVars    == <<buildVars, ipVars, idVars, throttleVars>>
vars        == <<inspectVars, sendVars, storeVars, moreVars>>

\* an optional value: <<>> when absent, <<v>> when present
Absent  == <<>>
Some(v) == <<v>>

(***************************************************************************)
(* Bounds of the model.                                                    *)
(***************************************************************************)
MaxUALen        == 3    \* words in a user agent
MaxInnerHeight  == 3    \* viewport heights 1..MaxInnerHeight
MaxScrollHeight == 4    \* document heights 1..MaxScrollHeight
MaxEndpoints    == 2    \* entries in the endpoints argument
MaxStored       == 2    \* records the storage quota admits
MaxNow          == 1    \* clock readings 1..MaxNow+1
MaxIds          == 4    \* session ids generated in succession
MaxCalls        == 3    \* raw scroll occurrences in one throttle window

\* DEFAULT_TRACKING_CONFIG.maxLocalStorageItems
maxLocalStorageItems == 50

\* DEFAULT_TRACKING_CONFIG.scrollThrottle, in milliseconds
scrollThrottle == 100

(***************************************************************************)
(* JavaScript numbers, as far as calculateScrollDepth needs them: NaN,     *)
(* the infinities, and the rationals n/d with d > 0.                       *)
(***************************************************************************)
NaN       == [k |-> "nan", n |-> 0, d |-> 1]
Inf(s)    == [k |-> "inf", n |-> s, d |-> 1]
Num(n, d) == [k |-> "num", n |-> n, d |-> d]
Zero      == Num(0, 1)

\* a / b on integers, as IEEE 754 division decides the special cases
JSDiv(a, b) ==
    IF b = 0
    THEN IF a = 0 THEN NaN ELSE Inf(IF a > 0 THEN 1 ELSE -1)
    ELSE IF b > 0 THEN Num(a, b) ELSE Num(-a, -b)

\* x * c for an integer c > 0
JSMul(x, c) ==
    IF x.k = "num" THEN Num(x.n * c, x.d) ELSE x

\* x is falsy: 0, -0 or NaN
Falsy(x) == x.k = "nan" \/ (x.k = "num" /\ x.n = 0)

\* a || b on numbers
JSOr(a, b) == IF Falsy(a) THEN b ELSE a

IsZero(x)  == x.k = "num" /\ x.n = 0
InRange(x) == x.k = "num" /\ x.n >= 0 /\ x.n <= 100 * x.d


(***************************************************************************)
(* Device/Browser Inspector.  A user agent is a sequence of words; a       *)
(* regular expression alternative that is a word matches where that word   *)
(* occurs (the /i flag makes case irrelevant, \b holds at word ends).      *)
(***************************************************************************)
UAWords == {"Android", "iPad", "iPhone", "Mobile", "Safari", "Windows"}

UserAgents == UNION {[1..n -> UAWords] : n \in 0..MaxUALen}

\* /Android|webOS|iPhone|iPad|iPod|BlackBerry|IEMobile|Opera Mini/i
MobileWords ==
    {"Android", "webOS", "iPhone", "iPad", "iPod", "BlackBerry", "IEMobile", "Opera Mini"}

MobilePattern(ua) == \E i \in 1..Len(ua) : ua[i] \in MobileWords

\* /iPad|Android(?=.*\bMobile\b)(?=.*\bSafari\b)/i : both lookaheads start
\* right after the matched "Android"
TabletPattern(ua) ==
    \E i \in 1..Len(ua) :
        \/ ua[i] = "iPad"
        \/ /\ ua[i] = "Android"
           /\ \E j \in (i+1)..Len(ua) : ua[j] = "Mobile"
           /\ \E j \in (i+1)..Len(ua) : ua[j] = "Safari"

detectDeviceType(ua) ==
    LET isMobile == MobilePattern(ua)
        isTablet == TabletPattern(ua)
    IN  [isMobile     |-> isMobile,
         isTablet     |-> isTablet,
         isDesktop    |-> ~isMobile /\ ~isTablet,
         touchSupport |-> touch]

\* (scrollTop / docHeight) * 100
calculateScrollDepth ==
    LET docHeight == scrollHeight - innerHeight
    IN  JSMul(JSDiv(scrollTop, docHeight), 100)

(***************************************************************************)
(* Session ids.  A string is a sequence of characters; the random part is  *)
(* Math.random().toString(36).substr(2, 9), which is "" when the draw is 0.*)
(***************************************************************************)
RECURSIVE Digits(_)
\* the decimal digits of n >= 0, as `${n}` writes them
Digits(n) ==
    LET digit == SubSeq(<<"0", "1", "2", "3", "4", "5", "6", "7", "8", "9">>,
                        (n % 10) + 1, (n % 10) + 1)
    IN  IF n < 10 THEN digit ELSE Digits(n \div 10) \o digit

\* what Math.random().toString(36).substr(2, 9) may give
Randoms == {<<>>, <<"k", "7">>}

\* an id made of the random string alone
generateSessionIdNoTime(r) == r

\* `${Date.now()}-${random}`
generateSessionId(r) == Digits(now) \o <<"-">> \o r

GenerateSessionId ==
    /\ Len(sessionIds) < MaxIds
    /\ \E r \in Randoms :
          sessionIds' = Append(sessionIds,
                               [id |-> generateSessionId(r), at |-> now, random |-> r])
    /\ UNCHANGED <<inspectVars, sendVars, storeVars, buildVars, ipVars, throttleVars>>

(***************************************************************************)
(* Snapshot Builder.  data is a partial record: a function whose domain    *)
(* holds the fields the caller supplied.  An optional field of the         *)
(* snapshot holds Absent for undefined.                                    *)
(***************************************************************************)
DeviceFields == {"isMobile", "isTablet", "isDesktop"}

\* the object with no field: {}
Empty == [f \in {} |-> Absent]

\* data.f ?? dflt
Nullish(data, f, dflt) == IF f \in DOMAIN data THEN data[f] ELSE dflt

\* data.f || dflt, for a numeric field
OrElse(data, f, dflt) == IF f \in DOMAIN data THEN JSOr(data[f], dflt) ELSE dflt

\* data.f || dflt, for a string field: "" is falsy
OrElseString(data, f, dflt) ==
    IF f \in DOMAIN data /\ data[f] # <<>> THEN data[f] ELSE dflt

\* getConnectionInfo(): the connection fields where navigator has a
\* connection, {} elsewhere (downlink and rtt are left out of the model)
getConnectionInfo ==
    IF connection = Absent
    THEN Empty
    ELSE [connectionType |-> IF connection[1].effectiveType # Absent
                             THEN connection[1].effectiveType
                             ELSE connection[1].type,
          effectiveType  |-> connection[1].effectiveType]

\* a builder that draws a new session id whatever the caller supplied
FreshSessionId(data, r) == generateSessionId(r)

\* data.sessionId || this.generateSessionId()
SessionIdOf(data, r) == OrElseString(data, "sessionId", generateSessionId(r))

\* a builder that fills in a placeholder address
IpAddressOrPlaceholder(data) ==
    IF "ipAddress" \in DOMAIN data /\ data["ipAddress"] # Absent
    THEN data["ipAddress"]
    ELSE Some("0.0.0.0")

\* ipAddress: data.ipAddress
IpAddressOf(data) == Nullish(data, "ipAddress", Absent)

\* r is what Math.random() gives if generateSessionId is called
formatTrackingData(data, r) ==
    [viewportHeight |-> OrElse(data, "viewportHeight", Num(innerHeight, 1)),
     ipAddress    |-> IpAddressOf(data),
     pageViews    |-> OrElse(data, "pageViews", Num(1, 1)),
     scrollDepth  |-> OrElse(data, "scrollDepth", Zero),
     isMobile     |-> Nullish(data, "isMobile", detectDeviceType(userAgent).isMobile),
     isTablet     |-> Nullish(data, "isTablet", detectDeviceType(userAgent).isTablet),
     isDesktop    |-> Nullish(data, "isDesktop", detectDeviceType(userAgent).isDesktop),
     touchSupport |-> Nullish(data, "touchSupport", touch),
     sessionId    |-> SessionIdOf(data, r),
     timestamp    |-> OrElse(data, "timestamp", Num(now, 1))]
    @@ getConnectionInfo

\* the partial records a caller passes: any of the device flags, and the
\* scroll depth it last computed
DeviceOverrides == UNION {[S -> BOOLEAN] : S \in SUBSET DeviceFields}

Overrides ==
    DeviceOverrides \cup
    {d @@ ("scrollDepth" :> scrollDepth[1]) : d \in
        IF scrollDepth = Absent THEN {} ELSE DeviceOverrides}

\* the field f left out, or supplied with one of vals
Optional(f, vals) == {Empty} \cup {f :> v : v \in vals}

\* the partial records of the snapshot specification: each field left out
\* or supplied, with a falsy and a truthy value where the field has both
SnapshotOverrides ==
    {a @@ b @@ c @@ d @@ e :
        a \in Optional("pageViews", {Zero, Num(2, 1)}),
        b \in Optional("viewportHeight", {Zero, Num(5, 1)}),
        c \in Optional("connectionType", {Some("wifi")}),
        d \in Optional("isMobile", BOOLEAN),
        e \in Optional("sessionId", {<<>>, <<"s", "1">>})}

\* what a call of formatTrackingData reads of the platform
Environment ==
    [userAgent |-> userAgent, touch |-> touch, innerHeight |-> innerHeight,
     connection |-> connection, now |-> now]

(***************************************************************************)
(* Inspector actions.                                                      *)
(***************************************************************************)
DetectDeviceType ==
    /\ deviceInfo' = Some(detectDeviceType(userAgent))
    /\ UNCHANGED <<userAgent, touch, scrollTop, scrollHeight, innerHeight,
                   scrollDepth, snapshot>>
    /\ UNCHANGED <<sendVars, storeVars, moreVars>>

\* the largest offset the page scrolls to
MaxScrollTop == IF scrollHeight > innerHeight THEN scrollHeight - innerHeight ELSE 0

ScrollTo(y) ==
    /\ y # scrollTop
    /\ scrollTop' = y
    /\ UNCHANGED <<userAgent, touch, scrollHeight, innerHeight,
                   deviceInfo, scrollDepth, snapshot>>
    /\ UNCHANGED <<sendVars, storeVars, moreVars>>

CalculateScrollDepth ==
    /\ scrollDepth' = Some(calculateScrollDepth)
    /\ UNCHANGED <<userAgent, touch, scrollTop, scrollHeight, innerHeight,
                   deviceInfo, snapshot>>
    /\ UNCHANGED <<sendVars, storeVars, moreVars>>

\* the call before this one had the same argument and environment
Repeats(data) ==
    /\ lastCall # Absent
    /\ lastCall[1].data = data
    /\ lastCall[1].env = Environment

FormatTrackingData(data) ==
    /\ \E r \in Randoms : snapshot' = Some(formatTrackingData(data, r))
    /\ lastCall' = Some([data |-> data, env |-> Environment,
                         repeated |-> Repeats(data)])
    /\ UNCHANGED <<userAgent, touch, scrollTop, scrollHeight, innerHeight,
                   deviceInfo, scrollDepth, connection>>
    /\ UNCHANGED <<sendVars, storeVars, ipVars, idVars, throttleVars>>

BuildSnapshot == \E data \in Overrides : FormatTrackingData(data)

\* formatTrackingData with any of the snapshot specification's arguments
BuildFrom == \E data \in SnapshotOverrides : FormatTrackingData(data)

\* formatTrackingData(snapshot): a built snapshot passed back in
Rebuild == snapshot # Absent /\ FormatTrackingData(snapshot[1])

Scroll == \E y \in 0..MaxScrollTop : ScrollTo(y)

(***************************************************************************)
(* IP lookup: getIPAddress().  The call awaits fetch(), then awaits         *)
(* response.json(), then reads data.ip; all three inside one try block.    *)
(***************************************************************************)
\* how the lookup can go: the request is rejected; the body is not JSON;
\* the body is the JSON null (data.ip is a TypeError); the body is an
\* object without ip; the body is an object with ip
LookupFailures == {"rejected", "unreadable", "null"}
LookupOutcomes == LookupFailures \cup {"no_ip", "address"}

\* the address the service reports
Address == "203.0.113.7"

\* a lookup whose exceptions reach the caller
getIPAddressUncaught(outcome) ==
    IF outcome \in LookupFailures
    THEN [threw |-> TRUE, value |-> Absent]
    ELSE [threw |-> FALSE,
          value |-> IF outcome = "address" THEN Some(Address) ELSE Absent]

\* what the call completes with: the catch block returns undefined
getIPAddress(outcome) ==
    IF outcome \in LookupFailures
    THEN [threw |-> FALSE, value |-> Absent]
    ELSE [threw |-> FALSE,
          value |-> IF outcome = "address" THEN Some(Address) ELSE Absent]

\* the call starts: fetch('https://api.ipify.org?format=json') is issued
GetIPAddress ==
    /\ ipState = "idle"
    /\ ipState' = "fetching"
    /\ UNCHANGED <<ipOutcome, ipResult>>
    /\ UNCHANGED <<inspectVars, sendVars, storeVars, buildVars, idVars, throttleVars>>

\* the request is rejected: the catch block runs and the call returns
IpFetchRejects ==
    /\ ipState = "fetching"
    /\ ipState' = "returned"
    /\ ipOutcome' = Some("rejected")
    /\ ipResult' = Some(getIPAddress("rejected"))
    /\ UNCHANGED <<inspectVars, sendVars, storeVars, buildVars, idVars, throttleVars>>

\* the request resolves with a response: response.json() is awaited
IpFetchResolves ==
    /\ ipState = "fetching"
    /\ ipState' = "reading"
    /\ UNCHANGED <<ipOutcome, ipResult>>
    /\ UNCHANGED <<inspectVars, sendVars, storeVars, buildVars, idVars, throttleVars>>

\* response.json() settles and the call returns
IpBodyRead(outcome) ==
    /\ ipState = "reading"
    /\ ipState' = "returned"
    /\ ipOutcome' = Some(outcome)
    /\ ipResult' = Some(getIPAddress(outcome))
    /\ UNCHANGED <<inspectVars, sendVars, storeVars, buildVars, idVars, throttleVars>>

IpBodySettles == \E outcome \in LookupOutcomes \ {"rejected"} : IpBodyRead(outcome)

\* the lookup has returned an address
IpResolved ==
    ipState = "returned" /\ ~ipResult[1].threw /\ ipResult[1].value # Absent

\* what a caller knows of the address: nothing, or what an awaited
\* getIPAddress() returned (const ip = await TrackingUtils.getIPAddress())
IpOverrides ==
    {Empty} \cup
    (IF ipState = "returned" /\ ~ipResult[1].threw
     THEN {"ipAddress" :> ipResult[1].value}
     ELSE {})

\* formatTrackingData called at any moment of the lookup
BuildWithIp == \E data \in IpOverrides : FormatTrackingData(data)

(***************************************************************************)
(* Delivery Manager: sendToMultipleEndpoints(data, endpoints).             *)
(* The call issues one fetch per endpoint, then awaits                     *)
(* Promise.allSettled over the fetch(...).catch(...) promises.             *)
(***************************************************************************)
Urls == {"/api/tracking", "/api/backup"}

EndpointLists == UNION {[1..n -> Urls] : n \in 0..MaxEndpoints}

\* createEvent(type, data): data is {} (Absent) or { scrollDepth }
createEvent(type, data) ==
    [type |-> type, data |-> data, timestamp |-> now]

\* the data argument: { trackingData, events }, with no event or with the
\* click recorded at the first clock reading
Payloads ==
    {[trackingData |-> "snapshotA", events |-> <<>>],
     [trackingData |-> "snapshotB",
      events |-> <<[createEvent("click", Absent) EXCEPT !.timestamp = 1]>>]}

\* how a fetch settles: a response with ok status, a response with an
\* error status (fetch resolves on HTTP 4xx/5xx), or a rejection
FetchOutcomes == {"response_ok", "response_error", "rejected"}

\* a fan-out that stops after its first endpoint
IssueFirstOnly(eps, data) ==
    [i \in 1..(IF Len(eps) > 0 THEN 1 ELSE 0) |->
        [endpoint |-> eps[i], method |-> "POST", body |-> data]]

\* endpoints.map(endpoint => fetch(endpoint, {method: 'POST', ...}))
IssueRequests(eps, data) ==
    [i \in 1..Len(eps) |-> [endpoint |-> eps[i], method |-> "POST", body |-> data]]

PendingPromise == [status |-> "pending", value |-> "none"]

\* .catch(error => { console.warn(...); return null }) on a settled fetch
CatchOf(f) ==
    IF f = "rejected"
    THEN [status |-> "fulfilled", value |-> "null"]
    ELSE [status |-> "fulfilled", value |-> f]

\* a join that the first settled promise releases
AnySettled(ps) == \E i \in 1..Len(ps) : ps[i].status # "pending"

\* Promise.allSettled(promises) resolves once no promise is pending
AllSettled(ps) == \A i \in 1..Len(ps) : ps[i].status # "pending"

\* a callback that reads result.value.ok: a TypeError when value is null
ResultOfUnguarded(endpoint, result) ==
    IF result.value = "null"
    THEN Absent
    ELSE Some([endpoint |-> endpoint,
               success  |-> result.value = "response_ok",
               response |-> result.value])

\* the callback of results.map applied to one settled result: the value
\* it returns, Absent when it throws
ResultOf(endpoint, result) ==
    Some([endpoint |-> endpoint,
          success  |-> result.status = "fulfilled" /\ result.value # "null",
          response |-> IF result.status = "fulfilled" THEN result.value ELSE "null"])

\* results.map((result, index) => ...); an exception in the callback
\* rejects the promise the async function returned
MapResults(eps, ps) ==
    LET rs == [i \in 1..Len(ps) |-> ResultOf(eps[i], ps[i])]
    IN  IF \E i \in 1..Len(ps) : rs[i] = Absent
        THEN [threw |-> TRUE, value |-> <<>>]
        ELSE [threw |-> FALSE, value |-> [i \in 1..Len(ps) |-> rs[i][1]]]

SendToMultipleEndpoints(data, eps) ==
    /\ sendState # "awaiting"
    /\ sendState' = "awaiting"
    /\ payload' = Some(data)
    /\ endpoints' = eps
    /\ requests' = IssueRequests(eps, data)
    /\ fetches' = [i \in 1..Len(eps) |-> "pending"]
    /\ promises' = [i \in 1..Len(eps) |-> PendingPromise]
    /\ results' = Absent
    /\ UNCHANGED <<inspectVars, storeVars, moreVars>>

FetchSettles(i, outcome) ==
    /\ fetches[i] = "pending"
    /\ fetches' = [fetches EXCEPT ![i] = outcome]
    /\ UNCHANGED <<sendState, payload, endpoints, requests, promises, results>>
    /\ UNCHANGED <<inspectVars, storeVars, moreVars>>

CatchReaction(i) ==
    /\ fetches[i] # "pending"
    /\ promises[i].status = "pending"
    /\ promises' = [promises EXCEPT ![i] = CatchOf(fetches[i])]
    /\ UNCHANGED <<sendState, payload, endpoints, requests, fetches, results>>
    /\ UNCHANGED <<inspectVars, storeVars, moreVars>>

SendReturns ==
    /\ sendState = "awaiting"
    /\ AllSettled(promises)
    /\ LET out == MapResults(endpoints, promises)
       IN  /\ sendState' = IF out.threw THEN "threw" ELSE "returned"
           /\ results' = IF out.threw THEN Absent ELSE Some(out.value)
    /\ UNCHANGED <<payload, endpoints, requests, fetches, promises>>
    /\ UNCHANGED <<inspectVars, storeVars, moreVars>>

Send == \E data \in Payloads, eps \in EndpointLists : SendToMultipleEndpoints(data, eps)

Network == \E i \in 1..Len(fetches), outcome \in FetchOutcomes : FetchSettles(i, outcome)

Microtask == \E i \in 1..Len(fetches) : CatchReaction(i)

(***************************************************************************)
(* Local Store: the key 'trackingData' of localStorage holds a JSON array  *)
(* of records.  kind tells what the stored string is:                      *)
(*   "absent"    no item (getItem returns null)                            *)
(*   "array"     a JSON array; items is the array JSON.parse returns       *)
(*   "empty"     the empty string                                          *)
(*   "nonarray"  valid JSON that is no array (an object, a number, null)   *)
(*   "garbage"   any other string: JSON.parse throws                       *)
(***************************************************************************)
\* JSON.stringify then JSON.parse of a number: NaN and the infinities are
\* written as null, a finite number is read back as it was
JSONNull == [k |-> "null", n |-> 0, d |-> 1]

JSONNumber(x) == IF x.k = "num" THEN x ELSE JSONNull

\* ... of an event: a key whose value is undefined is left out
JSONEvent(e) ==
    [type      |-> e.type,
     data      |-> IF e.data = Absent THEN Absent ELSE Some(JSONNumber(e.data[1])),
     timestamp |-> e.timestamp]

\* ... of a record
JSONRecord(r) ==
    [trackingData |-> r.trackingData,
     events       |-> [i \in 1..Len(r.events) |-> JSONEvent(r.events[i])],
     timestamp    |-> r.timestamp]

\* ... of the stored array
JSONRoundTrip(items) == [i \in 1..Len(items) |-> JSONRecord(items[i])]

\* { trackingData, events, timestamp: Date.now() }
RecordOf(data) ==
    [trackingData |-> data.trackingData, events |-> data.events, timestamp |-> now]

\* existingData ? JSON.parse(existingData) : [], then data.push(record)
Pushed(record) ==
    Append(IF localStorage.kind = "array" THEN localStorage.items ELSE <<>>, record)

\* getItem, JSON.parse, push or setItem throws: the storage is unusable,
\* the string does not parse, the parsed value has no push, or the array
\* does not fit
SaveThrows(record) ==
    \/ ~available
    \/ localStorage.kind \in {"garbage", "nonarray"}
    \/ Len(Pushed(record)) > quota

\* a save that recovers from an unreadable value by starting a new array
StoredAnew(record) ==
    IF ~available \/ Len(Pushed(record)) > quota
    THEN <<>>
    ELSE JSONRoundTrip(Pushed(record))

\* the body of saveToLocalStorage's try block: the array it stores, or
\* <<>> when it throws
Stored(record) ==
    IF SaveThrows(record)
    THEN <<>>
    ELSE JSONRoundTrip(Pushed(record))

SaveToLocalStorage(data) ==
    /\ IF Stored(RecordOf(data)) = <<>>
       THEN /\ saveResult' = Some(FALSE)
            /\ UNCHANGED <<localStorage, appended>>
       ELSE /\ localStorage' = [kind |-> "array", items |-> Stored(RecordOf(data))]
            /\ appended' = IF tainted THEN appended ELSE Append(appended, RecordOf(data))
            /\ saveResult' = Some(TRUE)
    /\ UNCHANGED <<quota, now, available, tainted, readResult>>
    /\ UNCHANGED <<inspectVars, sendVars, moreVars>>

\* a read that lets the exception of getItem or JSON.parse escape
getFromLocalStorageUncaught ==
    IF ~available \/ localStorage.kind = "garbage"
    THEN [threw |-> TRUE, kind |-> "array", items |-> <<>>]
    ELSE IF localStorage.kind \in {"absent", "empty"}
    THEN [threw |-> FALSE, kind |-> "array", items |-> <<>>]
    ELSE [threw |-> FALSE, kind |-> localStorage.kind, items |-> localStorage.items]

\* getFromLocalStorage(): data ? JSON.parse(data) : [], and [] from the
\* catch block; threw tells whether the call raised
getFromLocalStorage ==
    IF ~available \/ localStorage.kind \in {"garbage", "absent", "empty"}
    THEN [threw |-> FALSE, kind |-> "array", items |-> <<>>]
    ELSE [threw |-> FALSE, kind |-> localStorage.kind, items |-> localStorage.items]

GetFromLocalStorage ==
    /\ readResult' = Some(getFromLocalStorage)
    /\ UNCHANGED <<localStorage, quota, now, appended, saveResult, available, tainted>>
    /\ UNCHANGED <<inspectVars, sendVars, moreVars>>

\* clearLocalStorage(): removeItem, or nothing when it throws
ClearLocalStorage ==
    /\ IF available
       THEN /\ localStorage' = [kind |-> "absent", items |-> <<>>]
            /\ appended' = <<>>
            /\ tainted' = FALSE
       ELSE UNCHANGED <<localStorage, appended, tainted>>
    /\ UNCHANGED <<quota, now, saveResult, available, readResult>>
    /\ UNCHANGED <<inspectVars, sendVars, moreVars>>

\* another script of the page writes the key
ForeignWrite(kind) ==
    /\ available
    /\ localStorage.kind # kind
    /\ localStorage' = [kind |-> kind, items |-> <<>>]
    /\ tainted' = TRUE
    /\ appended' = <<>>
    /\ UNCHANGED <<quota, now, saveResult, available, readResult>>
    /\ UNCHANGED <<inspectVars, sendVars, moreVars>>

Corrupt == \E kind \in {"garbage", "empty", "nonarray"} : ForeignWrite(kind)

(***************************************************************************)
(* Event Recorder: the throttled scroll handler.  The handler lives in the *)
(* hook useUserTracking, which is not part of these sources; it is         *)
(* modelled on the specification's section 4.3: at most one handling per   *)
(* scrollThrottle milliseconds, later occurrences inside the window are    *)
(* dropped, not queued, and an accepted occurrence recomputes scrollDepth  *)
(* from the live scroll position and appends one event.                    *)
(***************************************************************************)
\* scrollTop / (scrollHeight - viewportHeight) * 100 clamped to [0, 100],
\* 0 where the page is no taller than the viewport
ClampedScrollDepth ==
    LET docHeight == scrollHeight - innerHeight
        depth     == JSMul(JSDiv(scrollTop, docHeight), 100)
    IN  IF docHeight <= 0 \/ depth.n < 0 THEN Zero
        ELSE IF depth.n > 100 * depth.d THEN Num(100, 1)
        ELSE depth

\* a handler that accepts every occurrence
NeverThrottled == FALSE

\* the handler is inside its throttle window
Throttled == lastHandled # Absent /\ now - lastHandled[1] < scrollThrottle

\* the raw occurrence at hand opens a new throttle window
OpensWindow == IF raw = <<>> THEN TRUE ELSE now - raw[1].at >= scrollThrottle

\* a raw scroll occurrence reaches the handler
OnScroll ==
    LET occurrence == [at |-> now, depth |-> ClampedScrollDepth]
        before     == IF OpensWindow THEN 0 ELSE updates
    IN  /\ OpensWindow \/ Len(raw) < MaxCalls
        /\ raw' = IF OpensWindow THEN <<occurrence>> ELSE Append(raw, occurrence)
        /\ IF Throttled
           THEN /\ updates' = before
                /\ UNCHANGED <<lastHandled, trackedDepth, eventLog>>
           ELSE /\ updates' = before + 1
                /\ lastHandled' = Some(now)
                /\ trackedDepth' = ClampedScrollDepth
                /\ eventLog' = Append(eventLog,
                                      createEvent("scroll", Some(ClampedScrollDepth)))
        /\ UNCHANGED <<inspectVars, sendVars, storeVars, buildVars, ipVars, idVars>>

\* the time between two occurrences: just under a throttle window, or a
\* whole one (occurrences with no Elapse between them share a millisecond)
Delays == {scrollThrottle - 1, scrollThrottle}

\* the clock readings the throttle specification follows
Horizon == 3 * scrollThrottle

Elapse ==
    /\ \E d \in Delays : now + d <= Horizon /\ now' = now + d
    /\ UNCHANGED <<localStorage, quota, appended, saveResult,
                   available, tainted, readResult>>
    /\ UNCHANGED <<inspectVars, sendVars, moreVars>>

Tick ==
    /\ now <= MaxNow
    /\ now' = now + 1
    /\ UNCHANGED <<localStorage, quota, appended, saveResult,
                   available, tainted, readResult>>
    /\ UNCHANGED <<inspectVars, sendVars, moreVars>>

Save == \E data \in Payloads : SaveToLocalStorage(data)

\* the same payload saved again and again
SaveAgain == SaveToLocalStorage(CHOOSE data \in Payloads : data.events = <<>>)

(***************************************************************************)
(* Initial states.  No call has been made; each                            *)
(* specification draws the inputs of the functions it applies.             *)
(***************************************************************************)
InitSend ==
    /\ sendState = "idle"
    /\ payload = Absent
    /\ endpoints = <<>>
    /\ requests = <<>>
    /\ fetches = <<>>
    /\ promises = <<>>
    /\ results = Absent

InitStore ==
    /\ localStorage = [kind |-> "absent", items |-> <<>>]
    /\ quota = MaxStored
    /\ now = 1
    /\ appended = <<>>
    /\ saveResult = Absent
    /\ available = TRUE
    /\ tainted = FALSE
    /\ readResult = Absent

InitResults ==
    /\ deviceInfo = Absent
    /\ scrollDepth = Absent
    /\ snapshot = Absent
    /\ lastCall = Absent
    /\ ipState = "idle"
    /\ ipOutcome = Absent
    /\ ipResult = Absent
    /\ sessionIds = <<>>
    /\ lastHandled = Absent
    /\ trackedDepth = Zero
    /\ eventLog = <<>>
    /\ raw = <<>>
    /\ updates = 0

DeviceInit ==
    /\ userAgent \in UserAgents
    /\ touch \in BOOLEAN
    /\ scrollTop = 0
    /\ scrollHeight = 1
    /\ innerHeight = 1
    /\ connection = Absent
    /\ InitResults
    /\ InitSend
    /\ InitStore

DeviceNext == DetectDeviceType \/ BuildSnapshot

DeviceSpec == DeviceInit /\ [][DeviceNext]_vars

ScrollInit ==
    /\ userAgent = <<"Windows">>
    /\ touch = FALSE
    /\ scrollTop = 0
    /\ scrollHeight \in 1..MaxScrollHeight
    /\ innerHeight \in 1..MaxInnerHeight
    /\ connection = Absent
    /\ InitResults
    /\ InitSend
    /\ InitStore

ScrollNext == Scroll \/ CalculateScrollDepth \/ BuildSnapshot

ScrollSpec == ScrollInit /\ [][ScrollNext]_vars

InitEnvironment ==
    /\ userAgent = <<"Windows">>
    /\ touch = FALSE
    /\ scrollTop = 0
    /\ scrollHeight = 1
    /\ innerHeight = 1
    /\ connection = Absent
    /\ InitResults

Init == InitEnvironment /\ InitSend /\ InitStore

Next ==
    \/ Send
    \/ Network
    \/ Microtask
    \/ SendReturns
    \/ Save
    \/ ClearLocalStorage
    \/ Tick

Spec == Init /\ [][Next]_vars

\* a storage with room for more records than the configured cap
CapInit ==
    /\ InitEnvironment
    /\ InitSend
    /\ localStorage = [kind |-> "absent", items |-> <<>>]
    /\ quota = maxLocalStorageItems + 1
    /\ now = 1
    /\ appended = <<>>
    /\ saveResult = Absent
    /\ available = TRUE
    /\ tainted = FALSE
    /\ readResult = Absent

CapNext == SaveAgain \/ ClearLocalStorage \/ Tick

CapSpec == CapInit /\ [][CapNext]_vars

\* the payloads the store is given: with no event, with a click, and with
\* a scroll event carrying the depth calculateScrollDepth() returns or 0
StorePayloads ==
    {[trackingData |-> "snapshotA", events |-> <<>>],
     [trackingData |-> "snapshotB", events |-> <<createEvent("click", Absent)>>],
     [trackingData |-> "snapshotC",
      events |-> <<createEvent("scroll", Some(calculateScrollDepth))>>],
     [trackingData |-> "snapshotD", events |-> <<createEvent("scroll", Some(Zero))>>]}

StoreSave == \E data \in StorePayloads : SaveToLocalStorage(data)

\* the local store of a page, whose storage may be unusable from the start
StoreInit ==
    /\ InitEnvironment
    /\ InitSend
    /\ localStorage = [kind |-> "absent", items |-> <<>>]
    /\ quota = MaxStored
    /\ now = 1
    /\ appended = <<>>
    /\ saveResult = Absent
    /\ available \in BOOLEAN
    /\ tainted = FALSE
    /\ readResult = Absent

StoreNext == StoreSave \/ GetFromLocalStorage \/ ClearLocalStorage \/ Corrupt

StoreSpec == StoreInit /\ [][StoreNext]_vars

\* navigator.connection: none, one reporting an effective type, one
\* reporting only a type
Connections ==
    {Absent,
     Some([effectiveType |-> Some("4g"), type |-> Some("cellular")]),
     Some([effectiveType |-> Absent, type |-> Some("ethernet")])}

\* the snapshot builder on a phone, with or without navigator.connection
SnapshotInit ==
    /\ userAgent = <<"iPhone">>
    /\ touch = TRUE
    /\ scrollTop = 0
    /\ scrollHeight = 1
    /\ innerHeight = 1
    /\ connection \in Connections
    /\ InitResults
    /\ InitSend
    /\ InitStore

SnapshotNext == BuildFrom \/ Rebuild \/ Tick

SnapshotSpec == SnapshotInit /\ [][SnapshotNext]_vars

\* one IP lookup, with snapshots built before, during and after it
IpInit ==
    /\ userAgent \in {<<"iPhone">>, <<"Windows">>}
    /\ touch \in BOOLEAN
    /\ scrollTop = 0
    /\ scrollHeight = 1
    /\ innerHeight = 1
    /\ connection = Absent
    /\ InitResults
    /\ InitSend
    /\ InitStore

IpNext ==
    \/ GetIPAddress
    \/ IpFetchRejects
    \/ IpFetchResolves
    \/ IpBodySettles
    \/ BuildWithIp
    \/ Tick

IpSpec == IpInit /\ [][IpNext]_vars

\* session ids generated in succession while the clock advances
IdInit == InitEnvironment /\ InitSend /\ InitStore

IdNext == GenerateSessionId \/ Tick

IdSpec == IdInit /\ [][IdNext]_vars

\* the scroll handler on a page one step taller than its viewport
ThrottleInit ==
    /\ userAgent = <<"Windows">>
    /\ touch = FALSE
    /\ scrollTop = 0
    /\ scrollHeight = MaxScrollHeight
    /\ innerHeight = MaxScrollHeight - 1
    /\ connection = Absent
    /\ InitResults
    /\ InitSend
    /\ InitStore

ThrottleNext == Scroll \/ OnScroll \/ Elapse

ThrottleSpec == ThrottleInit /\ [][ThrottleNext]_vars

(***************************************************************************)
(* Properties.                                                             *)
(***************************************************************************)
\* endpoint i's submission failed: a network error or a non-success response
EndpointFailed(i) == fetches[i] \in {"rejected", "response_error"}

AllEndpointsFailed ==
    /\ Len(endpoints) > 0
    /\ \A i \in 1..Len(endpoints) : EndpointFailed(i)

\* C1: the step on which send returns appends exactly one record, holding
\* the call's snapshot and event log, to the Local Store when every
\* endpoint failed, and leaves the Local Store alone otherwise.
C1_FallbackOnTotalFailure ==
    [][(sendState = "awaiting" /\ sendState' = "returned") =>
         IF AllEndpointsFailed
         THEN /\ localStorage'.kind = "array"
              /\ localStorage'.items = Pushed(RecordOf(payload[1]))
         ELSE localStorage' = localStorage]_vars

\* C2: the returned sequence is as long as the endpoint list, its i-th entry
\* names the i-th endpoint, and its success flag is true exactly when that
\* endpoint's submission succeeded.
C2_ResultsPerEndpoint ==
    sendState = "returned" =>
        /\ Len(results[1]) = Len(endpoints)
        /\ \A i \in 1..Len(endpoints) :
              /\ results[1][i].endpoint = endpoints[i]
              /\ results[1][i].success <=> ~EndpointFailed(i)

\* C3: an endpoint that answered with a non-success response is reported
\* with success = false.
C3_ErrorResponseFails ==
    sendState = "returned" =>
        \A i \in 1..Len(endpoints) :
            fetches[i] = "response_error" => ~results[1][i].success

\* the last n elements of s
LastN(s, n) == IF Len(s) <= n THEN s ELSE SubSeq(s, Len(s) - n + 1, Len(s))

\* C4: the Local Store never holds more than maxLocalStorageItems records:
\* it holds the most recent min(n, cap) of the records appended, in order.
C4_StoreCapped ==
    /\ Len(localStorage.items) <= maxLocalStorageItems
    /\ localStorage.items = LastN(appended, maxLocalStorageItems)

\* C5: a user agent that matches the tablet signature is classified as a
\* tablet only: isTablet, and neither isMobile nor isDesktop.
C5_TabletOnly ==
    (deviceInfo # Absent /\ TabletPattern(userAgent)) =>
        /\ deviceInfo[1].isTablet
        /\ ~deviceInfo[1].isMobile
        /\ ~deviceInfo[1].isDesktop

\* the number of device classes a snapshot reports
ClassCount(snap) ==
    Cardinality({f \in DeviceFields : snap[f]})

\* C6: every snapshot reports exactly one of isMobile, isTablet, isDesktop.
C6_ExactlyOneClass ==
    snapshot # Absent => ClassCount(snapshot[1]) = 1

\* C7: the scroll depth, as calculated and as carried in a snapshot, lies in
\* [0,100], and it is 0 when the page is no taller than the viewport.
C7_ScrollDepthBounded ==
    /\ scrollDepth # Absent => InRange(scrollDepth[1])
    /\ (scrollDepth # Absent /\ scrollHeight <= innerHeight) => IsZero(scrollDepth[1])
    /\ snapshot # Absent => InRange(snapshot[1].scrollDepth)

\* C8: a result of send exists only when the submission to every endpoint
\* has completed, by success or by failure.
C8_ResultAfterAllComplete ==
    results # Absent =>
        \A i \in 1..Len(endpoints) : fetches[i] # "pending"

\* two endpoints, the first failed and the second succeeded, result returned
C8_Witness ==
    /\ sendState = "returned"
    /\ Len(endpoints) = 2
    /\ fetches = <<"rejected", "response_ok">>
    /\ Len(results[1]) = 2

\* C9: from the call on, through every outcome and after the return, the
\* requests issued are one per entry of the endpoint list, the i-th to the
\* i-th endpoint: none is skipped and none is repeated.
C9_OneAttemptPerEndpoint ==
    sendState # "idle" =>
        /\ Len(requests) = Len(endpoints)
        /\ \A i \in 1..Len(endpoints) : requests[i].endpoint = endpoints[i]

\* the first endpoint failed, the second was attempted all the same, and the
\* call returned without a second request to the first
C9_Witness ==
    /\ sendState = "returned"
    /\ Len(endpoints) = 2
    /\ fetches[1] = "rejected"
    /\ fetches[2] # "pending"
    /\ Len(requests) = 2

\* C10: send never raises; when it has returned, its result describes every
\* endpoint.
C10_SendNeverRaises ==
    /\ sendState # "threw"
    /\ sendState = "returned" =>
          /\ results # Absent
          /\ Len(results[1]) = Len(endpoints)
          /\ \A i \in 1..Len(endpoints) : results[1][i].endpoint = endpoints[i]

\* every endpoint failed and send returned a result all the same
C10_Witness ==
    /\ sendState = "returned"
    /\ Len(endpoints) = 2
    /\ fetches = <<"rejected", "rejected">>
    /\ \A i \in 1..2 : ~results[1][i].success

\* what a read returns when it yields the empty sequence without raising
EmptyRead == [threw |-> FALSE, kind |-> "array", items |-> <<>>]

\* C11: a read of a store whose value does not parse, or whose storage is
\* unusable, returns the empty sequence and does not raise.
C11_ReadDegrades ==
    [][(GetFromLocalStorage /\ (~available \/ localStorage.kind \in {"garbage", "empty"}))
          => readResult' = Some(EmptyRead)]_vars

\* the storage is unusable and a read returned the empty sequence
C11_Witness ==
    /\ ~available
    /\ readResult = Some(EmptyRead)

\* the record does not fit into the storage
StoreFull(record) ==
    /\ localStorage.kind \in {"absent", "array"}
    /\ Len(Pushed(record)) > quota

\* C12 as claimed: an append to a store that is unusable, full or corrupted
\* (its value is no JSON array) returns false and leaves the value as it was.
C12_AppendOrFailAnyCorruption ==
    [][\A data \in StorePayloads :
          (/\ SaveToLocalStorage(data)
           /\ \/ ~available
              \/ StoreFull(RecordOf(data))
              \/ localStorage.kind \in {"garbage", "nonarray", "empty"})
          => (saveResult' = Some(FALSE) /\ localStorage' = localStorage)]_vars

\* C12, amended: an append to a store that is unusable, full, or holds a
\* non-empty value that is no JSON array returns false and leaves the value
\* as it was; an empty string is taken for an empty store and replaced.
C12_AppendOrFail ==
    [][\A data \in StorePayloads :
          /\ (/\ SaveToLocalStorage(data)
              /\ \/ ~available
                 \/ StoreFull(RecordOf(data))
                 \/ localStorage.kind \in {"garbage", "nonarray"})
             => (saveResult' = Some(FALSE) /\ localStorage' = localStorage)
          /\ (/\ SaveToLocalStorage(data)
              /\ available
              /\ localStorage.kind = "empty")
             => (/\ saveResult' = Some(TRUE)
                 /\ localStorage' =
                      [kind |-> "array", items |-> <<JSONRecord(RecordOf(data))>>])]_vars

\* an append failed and the unparseable value is still there
C12_Witness ==
    /\ localStorage.kind = "garbage"
    /\ saveResult = Some(FALSE)
    /\ available

\* C19: on a working store that only append and clear have written, a read
\* returns the records appended since the last clear, in order and as they
\* were appended (the empty sequence right after a clear).
C19_ReadsWhatWasAppended ==
    [][(GetFromLocalStorage /\ available /\ ~tainted)
          => readResult' = Some([threw |-> FALSE, kind |-> "array", items |-> appended])]_vars

\* the live platform value of a field, or its static default
LiveOrDefault(f) ==
    CASE f = "viewportHeight" -> Num(innerHeight, 1)
      [] f = "pageViews"      -> Num(1, 1)
      [] f = "isMobile"       -> MobilePattern(userAgent)
      [] f = "timestamp"      -> Num(lastCall[1].env.now, 1)

\* C13: for every field, a snapshot carries the override the caller
\* supplied (falsy values and the connection fields included), and
\* otherwise the live platform value or the static default.
C13_OverrideWins ==
    snapshot # Absent =>
        LET data == lastCall[1].data
        IN  /\ \A f \in DOMAIN data :
                f \in DOMAIN snapshot[1] /\ snapshot[1][f] = data[f]
            /\ \A f \in {"viewportHeight", "pageViews", "isMobile", "timestamp"} :
                f \notin DOMAIN data => snapshot[1][f] = LiveOrDefault(f)

\* the caller supplied a session id (a non-empty string)
HasSessionId(data) == "sessionId" \in DOMAIN data /\ data["sessionId"] # <<>>

C15_SnapshotWithoutIp ==
    /\ ENABLED BuildWithIp
    /\ snapshot # Absent /\ ~IpResolved => snapshot[1].ipAddress = Absent

\* a snapshot was built while the request was pending, or after it failed
C15_Witness ==
    /\ snapshot # Absent
    /\ \/ ipState = "fetching"
       \/ ipState = "returned" /\ ipOutcome = Some("rejected")
             /\ "ipAddress" \in DOMAIN lastCall[1].data

\* C16: getIPAddress never raises; when the request is rejected or the
\* response cannot be read it returns undefined.
C16_LookupNeverRaises ==
    ipState = "returned" =>
        /\ ~ipResult[1].threw
        /\ ipOutcome[1] \in LookupFailures => ipResult[1].value = Absent

\* the lookup returned after a rejected request or an unreadable body
C16_Witness ==
    /\ ipState = "returned"
    /\ ipOutcome[1] \in {"rejected", "unreadable"}
    /\ ipResult = Some([threw |-> FALSE, value |-> Absent])

\* C17 as claimed: the session ids generated in succession are pairwise
\* distinct, also when several are generated in the same millisecond.
C17_IdsDistinct ==
    \A i, j \in 1..Len(sessionIds) :
        i # j => sessionIds[i].id # sessionIds[j].id

\* C17, amended: two ids are equal exactly when they were generated in the
\* same millisecond from the same random string.
C17_IdsDistinctUnlessSameDraw ==
    \A i, j \in 1..Len(sessionIds) :
        sessionIds[i].id = sessionIds[j].id <=>
            /\ sessionIds[i].at = sessionIds[j].at
            /\ sessionIds[i].random = sessionIds[j].random

\* MaxIds ids were generated, two of them by the same random string in
\* different milliseconds and two of them in the same millisecond
C17_Witness ==
    /\ Len(sessionIds) = MaxIds
    /\ \E i, j \in 1..Len(sessionIds) :
          /\ sessionIds[i].at # sessionIds[j].at
          /\ sessionIds[i].random = sessionIds[j].random
    /\ \E i, j \in 1..Len(sessionIds) :
          /\ i # j
          /\ sessionIds[i].at = sessionIds[j].at
          /\ sessionIds[i].random # sessionIds[j].random

\* the event-log entries made in the current throttle window
WindowEntries ==
    {i \in 1..Len(eventLog) : eventLog[i].timestamp >= raw[1].at}

=============================================================================
